---- MODULE Spec2Model ----
(***************************************************************************)
(* BBCLDRSFeedingService (superdesk/io/feeding_services/bbc_ldrs.py):      *)
(* the connectivity probe (_test), the sync orchestrator (_update) and the *)
(* pagination walk (_fetch_data), with the HTTP feed and the feed parser   *)
(* as a nondeterministic environment.                                      *)
(*                                                                         *)
(* Texts (response bodies, regex matches) are sequences of one-character   *)
(* strings, so that the regular-expression searches of the code are        *)
(* computed on the characters and not assumed.                             *)
(***************************************************************************)
EXTENDS Naturals, Sequences, FiniteSets

(* ------------------------------ bounds --------------------------------- *)

\* Largest "total" a response body of the modelled feed reports.
MaxTotal == 20

\* Number of requests of one walk up to which the modelled feed can go on
\* reporting a total larger than the offset requested.
MaxWalk == 4

(* ------------------------- program constants --------------------------- *)

\* offset_jump = 10: results are read this many at a time.
offset_jump == 10

\* 'limit': 1 of the probe's params.
test_limit == 1

(* ------------------------------- texts --------------------------------- *)

DigitChars == <<"0", "1", "2", "3", "4", "5", "6", "7", "8", "9">>

IsDigit(c) == \E i \in 1..10 : DigitChars[i] = c

DigitValue(c) == (CHOOSE i \in 1..10 : DigitChars[i] = c) - 1

\* str(n) for a natural number: its decimal digits, most significant first.
RECURSIVE Dec(_)
Dec(n) == IF n < 10 THEN <<DigitChars[n + 1]>>
          ELSE Dec(n \div 10) \o <<DigitChars[(n % 10) + 1]>>

\* The literal prefix of the pattern '\"total\": *[0-9]*' :  "total":
TotalKey == <<"\"", "t", "o", "t", "a", "l", "\"", ":">>

\* The pattern of the re.match of the non-success branch (no metacharacter
\* in it: every character stands for itself).
NoApiKeyPattern ==
    << "E", "r", "r", "o", "r", ":", " ", "N", "o", " ", "A", "P", "I", " ",
       "K", "e", "y", " ", "p", "r", "o", "v", "i", "d", "e", "d" >>

\* text[i..] starts with the literal lit.
StartsAt(text, i, lit) ==
    /\ i >= 1
    /\ i + Len(lit) - 1 <= Len(text)
    /\ SubSeq(text, i, i + Len(lit) - 1) = lit

\* Python's `lit in text`.
Contains(text, lit) == \E i \in 1..(Len(text) + 1) : StartsAt(text, i, lit)

\* Last index of the longest run of characters satisfying the class that
\* starts at index i (i - 1 when the run is empty): a greedy `x*`.
RECURSIVE SpacesEnd(_, _)
SpacesEnd(text, i) ==
    IF i <= Len(text) /\ text[i] = " " THEN SpacesEnd(text, i + 1) ELSE i - 1

RECURSIVE DigitsEnd(_, _)
DigitsEnd(text, i) ==
    IF i <= Len(text) /\ IsDigit(text[i]) THEN DigitsEnd(text, i + 1) ELSE i - 1

\* A match object or None: matched = FALSE is None, group is group().
NoMatch == [matched |-> FALSE, group |-> <<>>]

Match(g) == [matched |-> TRUE, group |-> g]

\* re.search('\"total\": *[0-9]*', text): the leftmost occurrence of the
\* key, followed by as many blanks and then as many digits as there are.
SearchTotal(text) ==
    IF ~Contains(text, TotalKey) THEN NoMatch
    ELSE LET i == CHOOSE j \in 1..Len(text) :
                     /\ StartsAt(text, j, TotalKey)
                     /\ \A k \in 1..(j - 1) : ~StartsAt(text, k, TotalKey)
             s == SpacesEnd(text, i + Len(TotalKey))
             e == DigitsEnd(text, s + 1)
         IN  Match(SubSeq(text, i, e))

\* re.search('[0-9]+', text): the leftmost digit and the run it starts.
SearchDigits(text) ==
    IF ~\E j \in 1..Len(text) : IsDigit(text[j]) THEN NoMatch
    ELSE LET i == CHOOSE j \in 1..Len(text) :
                     /\ IsDigit(text[j])
                     /\ \A k \in 1..(j - 1) : ~IsDigit(text[k])
         IN  Match(SubSeq(text, i, DigitsEnd(text, i)))

\* re.match(pattern, text) for a pattern of literal characters: the match
\* is anchored at the first character of the text.
ReMatchLiteral(pattern, text) ==
    IF StartsAt(text, 1, pattern) THEN Match(pattern) ELSE NoMatch

\* int(s) for a string of decimal digits.
RECURSIVE int(_)
int(s) == IF Len(s) = 0 THEN 0
          ELSE 10 * int(SubSeq(s, 1, Len(s) - 1)) + DigitValue(s[Len(s)])

\* n in decimal, padded with zeros on the left to at least w characters
\* (the %m, %d, %H, %M, %S and %Y fields of strftime).
RECURSIVE Pad(_, _)
Pad(s, w) == IF Len(s) >= w THEN s ELSE Pad(<<"0">> \o s, w)

\* datetime.strftime('%Y-%m-%dT%H:%M:%S'): seconds resolution, the
\* microsecond field is not printed.
strftime(dt) ==
    Pad(Dec(dt.year), 4) \o <<"-">> \o Pad(Dec(dt.month), 2) \o <<"-">>
      \o Pad(Dec(dt.day), 2) \o <<"T">> \o Pad(Dec(dt.hour), 2) \o <<":">>
      \o Pad(Dec(dt.minute), 2) \o <<":">> \o Pad(Dec(dt.second), 2)

\* utcfromtimestamp(0)
EpochZero == [year |-> 1970, month |-> 1, day |-> 1,
              hour |-> 0, minute |-> 0, second |-> 0, microsecond |-> 0]

(* ----------------------------- environment ----------------------------- *)

\* The totals the modelled feed reports.
TotalValues == {t \in 0..MaxTotal : t % 5 \in {0, 1}}

\* {"total": <t>}
PlainBody(t) == <<"{">> \o TotalKey \o <<" ">> \o Dec(t) \o <<"}">>

\* {"total":<t>}  (no blank after the colon)
TightBody(t) == <<"{">> \o TotalKey \o Dec(t) \o <<"}">>

\* {"id":7,"total": <t>}  (a digit before the key)
LateBody(t) == <<"{", "\"", "i", "d", "\"", ":", "7", ",">> \o TotalKey
                 \o <<" ">> \o Dec(t) \o <<"}">>

\* {}  (no "total" field at all)
NoTotalBody == <<"{", "}">>

\* {"total": null}  (a "total" field with no digits after it)
NullTotalBody == <<"{">> \o TotalKey \o <<" ", "n", "u", "l", "l", "}">>

\* {"total": "5"}  (the number is quoted: no digit follows the blanks)
QuotedTotalBody == <<"{">> \o TotalKey \o <<" ", "\"", "5", "\"", "}">>

SuccessBodies ==
    {PlainBody(t) : t \in TotalValues}
      \cup {TightBody(15), LateBody(5), NoTotalBody, NullTotalBody, QuotedTotalBody}

\* The feed's answer to a request without an API key.
MarkerBody == NoApiKeyPattern

\* {"error":"Error: No API Key provided"}  (the marker inside the body)
EmbeddedMarkerBody ==
    <<"{", "\"", "e", "r", "r", "o", "r", "\"", ":", "\"">> \o NoApiKeyPattern
      \o <<"\"", "}">>

OtherErrorBody == <<"o", "o", "p", "s">>

ErrorBodies == {MarkerBody, MarkerBody \o <<".">>, EmbeddedMarkerBody, OtherErrorBody}

SuccessStatus == {200}

ErrorStatus == {401, 404, 500}

\* The reason phrase of a status line, as one unit of text.
Reason(status) == CASE status = 200 -> <<"OK">>
                    [] status = 401 -> <<"Unauthorized">>
                    [] status = 404 -> <<"Not Found">>
                    [] OTHER        -> <<"Internal Server Error">>

Response(status, body) ==
    [exc |-> "", failure |-> "", status_code |-> status, text |-> body,
     reason |-> Reason(status)]

Responses ==
    {Response(s, b) : s \in SuccessStatus, b \in SuccessBodies}
      \cup {Response(s, b) : s \in ErrorStatus, b \in ErrorBodies}
      \cup {Response(404, PlainBody(5))}

\* A feed that keeps growing: the page at an offset reports one result more
\* than the offset (for the first MaxWalk requests of a walk).
GrowingResponses(off, requests) ==
    IF requests < MaxWalk THEN {Response(200, PlainBody(off + 1))} ELSE {}

\* Response.ok: raise_for_status() raises for 400 <= status_code < 600.
ok(response) == ~(400 <= response.status_code /\ response.status_code < 600)

\* Ways a request can fail at transport level.
TransportFailures == {"dns", "refused", "connect_timeout", "read_timeout"}

\* The requests.exceptions class that requests.get raises for each.
ExceptionClass(failure) ==
    CASE failure = "dns"             -> "ConnectionError"
      [] failure = "refused"         -> "ConnectionError"
      [] failure = "connect_timeout" -> "ConnectTimeout"
      [] failure = "read_timeout"    -> "ReadTimeout"

\* isinstance(exc, requests.exceptions.ConnectionError): ConnectTimeout
\* derives from ConnectionError and Timeout, ReadTimeout from Timeout only.
IsConnectionError(cls) == cls \in {"ConnectionError", "ConnectTimeout"}

\* requests.get raising instead of returning a response.
Thrown(failure) ==
    [exc |-> ExceptionClass(failure), failure |-> failure, status_code |-> 0,
     text |-> <<>>, reason |-> <<>>]

\* What the feed parser does with one raw page.
ParserOutcomes == {"ok", "get_feed_parser_raises", "parse_raises"}

\* parser.parse(item): the normalized item of a raw page.
parse(item) == [article_of |-> item]

Providers ==
    { [config |-> [url |-> "https://api.ldrs.org.uk/v1/item", api_key |-> "key"],
       has_last_updated |-> FALSE, last_updated |-> EpochZero],
      [config |-> [url |-> "https://api.ldrs.org.uk/v1/item", api_key |-> "key"],
       has_last_updated |-> TRUE,
       last_updated |-> [year |-> 2018, month |-> 3, day |-> 5, hour |-> 9,
                         minute |-> 7, second |-> 2, microsecond |-> 123] ] }

(* -------------------------------- state -------------------------------- *)

VARIABLES
    provider,      \* the provider record the operation is called with
    op,            \* the operation in progress: idle, test, fetch_data, update
    pc,            \* its position: idle, request, parse, done
    offset,        \* _fetch_data: offset
    items,         \* _fetch_data: items (json_items once _update has them)
    parsed_items,  \* _update: parsed_items
    http,          \* every requests.get call so far, with what came back
    parser_calls,  \* every item handed to the feed parser so far
    result         \* how the operation ended: returned value or raised error

vars == <<provider, op, pc, offset, items, parsed_items, http, parser_calls, result>>

NoResult == [kind |-> "none", error |-> "", value |-> <<>>, data |-> <<>>]

Returned(v) == [kind |-> "returned", error |-> "", value |-> v, data |-> <<>>]

Raised(e, d) == [kind |-> "raised", error |-> e, value |-> <<>>, data |-> d]

Init ==
    /\ provider \in Providers
    /\ op = "idle"
    /\ pc = "idle"
    /\ offset = 0
    /\ items = <<>>
    /\ parsed_items = <<>>
    /\ http = <<>>
    /\ parser_calls = <<>>
    /\ result = NoResult

(* ------------------------------ _fetch_data ---------------------------- *)

\* provider.setdefault in the place of provider.get: the default is stored.
ProviderAfterGet_setdefault(p) ==
    [p EXCEPT !.has_last_updated = TRUE,
              !.last_updated = IF p.has_last_updated THEN p.last_updated ELSE EpochZero]

\* The provider after provider.get('config', {}) and
\* provider.get('last_updated', utcfromtimestamp(0)): dict.get only reads.
ProviderAfterGet(p) == p

\* last_update = provider.get('last_updated', utcfromtimestamp(0)).strftime(...)
last_update(p) ==
    strftime(IF p.has_last_updated THEN p.last_updated ELSE EpochZero)

\* params whose 'offset' is not set again in the loop.
fetch_params_stale(p, off) ==
    [start |-> last_update(p), limit |-> offset_jump, offset |-> 0]

\* params of the request at an offset, and the apikey header.
fetch_params(p, off) ==
    [start |-> last_update(p), limit |-> offset_jump, offset |-> off]

Request(caller, p, params) ==
    [caller |-> caller, url |-> p.config.url, apikey |-> p.config.api_key,
     params |-> params]

Exchange(request, reply) == [request |-> request, reply |-> reply]

\* `results_str is None`: group() of a match object is a str, never None.
IsNone(results_str) == FALSE

\* The exit test applied to the offset of the next page.
ExitTest_next(off, num_results) == off + offset_jump >= num_results

\* The exit test with a strict comparison.
ExitTest_strict(off, num_results) == off > num_results

\* `if offset >= num_results: return items`
ExitTest(off, num_results) == off >= num_results

\* The body appended whatever the total is.
Accumulate_always(its, num_results, text) == Append(its, text)

\* `if num_results > 0: items.append(response.text)`
Accumulate(its, num_results, text) ==
    IF num_results > 0 THEN Append(its, text) ELSE its

\* One iteration of the loop on a response with response.ok: what it does
\* next (raise, return, loop) and the values of the locals after it.
OkIteration(response, off, its) ==
    LET item_match == SearchTotal(response.text)
    IN  IF ~item_match.matched
        THEN \* None.group()
             [next |-> "raise", raised |-> Raised("AttributeError", <<>>),
              items |-> its, offset |-> off]
        ELSE
    LET item_ident == item_match.group
        results_match == SearchDigits(item_ident)
    IN  IF ~results_match.matched
        THEN \* None.group()
             [next |-> "raise", raised |-> Raised("AttributeError", <<>>),
              items |-> its, offset |-> off]
        ELSE
    LET results_str == results_match.group
    IN  IF IsNone(results_str)
        THEN [next |-> "raise", raised |-> Raised("apiGeneralError", response.text),
              items |-> its, offset |-> off]
        ELSE
    LET num_results == int(results_str)
        items2 == Accumulate(its, num_results, response.text)
    IN  IF ExitTest(off, num_results)
        THEN [next |-> "return", raised |-> NoResult, items |-> items2, offset |-> off]
        ELSE [next |-> "loop", raised |-> NoResult, items |-> items2,
              offset |-> off + offset_jump]

\* The non-success branch without its 404 case.
ErrorOf_no404(response) ==
    IF ReMatchLiteral(NoApiKeyPattern, response.text).matched
    THEN Raised("apiAuthError", response.text)
    ELSE Raised("apiGeneralError", response.reason)

\* The else branch of `if response.ok`: the error a non-success response
\* is turned into.
ErrorOf(response) ==
    IF ReMatchLiteral(NoApiKeyPattern, response.text).matched
    THEN Raised("apiAuthError", response.text)
    ELSE IF response.status_code = 404
         THEN Raised("apiNotFoundError", response.reason)
         ELSE Raised("apiGeneralError", response.reason)

\* What leaves the try/except around requests.get when it raises.
RequestError(failure) ==
    IF IsConnectionError(ExceptionClass(failure))
    THEN Raised("apiConnectionError", <<ExceptionClass(failure)>>)
    ELSE Raised(ExceptionClass(failure), <<>>)

\* A call of _fetch_data inside the try block of _update: its errors come
\* out as ParserError.
FetchErrorIn_wrapped(caller, raised) ==
    IF caller = "update" THEN Raised("parseMessageError", <<>>) ELSE raised

\* An exception of _fetch_data in its caller: _update calls it outside its
\* try block (line 79), so the exception leaves _update as it is.
FetchErrorIn(caller, raised) == raised

\* A walk that goes on while _update is parsing.
InFetch_while_parsing ==
    op \in {"fetch_data", "update"} /\ pc \in {"request", "parse"}

\* The walk of _fetch_data is in progress (`while True`).
InFetch == op \in {"fetch_data", "update"} /\ pc = "request"

\* fetch_data(config, provider) is called on its own.
call_fetch_data ==
    /\ op = "idle"
    /\ op' = "fetch_data"
    /\ pc' = "request"
    /\ offset' = 0
    /\ items' = <<>>
    /\ provider' = ProviderAfterGet(provider)
    /\ UNCHANGED <<parsed_items, http, parser_calls, result>>

\* requests.get raises: the walk ends with the error, nothing is returned.
fetch_raises(failure) ==
    /\ InFetch
    /\ http' = Append(http, Exchange(Request("fetch_data", provider,
                                             fetch_params(provider, offset)),
                                     Thrown(failure)))
    /\ result' = FetchErrorIn(op, RequestError(failure))
    /\ pc' = "done"
    /\ UNCHANGED <<provider, op, offset, items, parsed_items, parser_calls>>

\* requests.get returns a response with response.ok.
fetch_ok(response) ==
    /\ InFetch
    /\ ok(response)
    /\ http' = Append(http, Exchange(Request("fetch_data", provider,
                                             fetch_params(provider, offset)),
                                     response))
    /\ LET it == OkIteration(response, offset, items)
       IN  /\ items' = it.items
           /\ offset' = it.offset
           /\ CASE it.next = "raise" ->
                     /\ result' = FetchErrorIn(op, it.raised)
                     /\ pc' = "done"
                [] it.next = "return" /\ op = "fetch_data" ->
                     /\ result' = Returned(it.items)
                     /\ pc' = "done"
                [] it.next = "return" /\ op = "update" ->
                     \* json_items = self._fetch_data(config, provider)
                     /\ result' = result
                     /\ pc' = "parse"
                [] OTHER ->
                     /\ result' = result
                     /\ pc' = pc
    /\ UNCHANGED <<provider, op, parsed_items, parser_calls>>

\* requests.get returns a response without response.ok.
fetch_not_ok(response) ==
    /\ InFetch
    /\ ~ok(response)
    /\ http' = Append(http, Exchange(Request("fetch_data", provider,
                                             fetch_params(provider, offset)),
                                     response))
    /\ result' = FetchErrorIn(op, ErrorOf(response))
    /\ pc' = "done"
    /\ UNCHANGED <<provider, op, offset, items, parsed_items, parser_calls>>

(* -------------------------------- _update ------------------------------ *)

\* update(provider, update) is called: it starts with the fetch walk.
call_update ==
    /\ op = "idle"
    /\ op' = "update"
    /\ pc' = "request"
    /\ offset' = 0
    /\ items' = <<>>
    /\ provider' = ProviderAfterGet(provider)
    /\ UNCHANGED <<parsed_items, http, parser_calls, result>>

\* A loop body that skips an item the parser fails on.
ParseIteration_skip(item, outcome, parsed) ==
    [next |-> "loop", raised |-> NoResult,
     parsed_items |-> IF outcome = "ok" THEN Append(parsed, parse(item)) ELSE parsed]

\* A loop body that puts each parsed item in front of the others.
ParseIteration_prepend(item, outcome, parsed) ==
    IF outcome = "ok"
    THEN [next |-> "loop", raised |-> NoResult, parsed_items |-> <<parse(item)>> \o parsed]
    ELSE [next |-> "raise", raised |-> Raised("parseMessageError", item),
          parsed_items |-> parsed]

\* The body of `for item in json_items` on one item: the parsed item is
\* appended, or any exception of get_feed_parser or parse becomes a ParserError
\* with the item as data.
ParseIteration(item, outcome, parsed) ==
    IF outcome = "ok"
    THEN [next |-> "loop", raised |-> NoResult, parsed_items |-> Append(parsed, parse(item))]
    ELSE [next |-> "raise", raised |-> Raised("parseMessageError", item),
          parsed_items |-> parsed]

\* One iteration of `for item in json_items`: the next item goes to the parser.
update_parse(outcome) ==
    /\ op = "update"
    /\ pc = "parse"
    /\ Len(parser_calls) < Len(items)
    /\ LET item == items[Len(parser_calls) + 1]
           it == ParseIteration(item, outcome, parsed_items)
       IN  /\ parser_calls' = Append(parser_calls, [item |-> item, outcome |-> outcome])
           /\ parsed_items' = it.parsed_items
           /\ IF it.next = "raise"
              THEN result' = it.raised /\ pc' = "done"
              ELSE UNCHANGED <<pc, result>>
    /\ UNCHANGED <<provider, op, offset, items, http>>

\* `return parsed_items` once the loop is over.
update_return ==
    /\ op = "update"
    /\ pc = "parse"
    /\ Len(parser_calls) = Len(items)
    /\ result' = Returned(parsed_items)
    /\ pc' = "done"
    /\ UNCHANGED <<provider, op, offset, items, parsed_items, http, parser_calls>>

(* --------------------------------- _test ------------------------------- *)

test_params == [limit |-> test_limit, fields |-> "id"]

call_test ==
    /\ op = "idle"
    /\ op' = "test"
    /\ pc' = "request"
    /\ provider' = ProviderAfterGet(provider)
    /\ UNCHANGED <<offset, items, parsed_items, http, parser_calls, result>>

\* The probe's classification without its 404 case.
TestErrorOf_no404(response) == Raised("apiGeneralError", response.reason)

\* The probe's classification with the marker test of _fetch_data.
TestErrorOf_marker(response) ==
    IF ReMatchLiteral(NoApiKeyPattern, response.text).matched
    THEN Raised("apiAuthError", response.text)
    ELSE IF response.status_code = 404
         THEN Raised("apiNotFoundError", response.reason)
         ELSE Raised("apiGeneralError", response.reason)

\* The error a non-success response to the probe is turned into.
TestErrorOf(response) ==
    IF response.status_code = 404
    THEN Raised("apiNotFoundError", response.reason)
    ELSE Raised("apiGeneralError", response.reason)

\* The probe's outcome looking for a total in the body it should discard.
TestOutcome_reads_body(response) ==
    IF ok(response) /\ SearchTotal(response.text).matched
    THEN Returned(<<>>)
    ELSE IF response.status_code = 404
         THEN Raised("apiNotFoundError", response.reason)
         ELSE Raised("apiGeneralError", response.reason)

\* What _test does with a response: nothing when response.ok (it returns
\* None), an error otherwise.
TestOutcome(response) ==
    IF ok(response) THEN Returned(<<>>) ELSE TestErrorOf(response)

test_raises(failure) ==
    /\ op = "test"
    /\ pc = "request"
    /\ http' = Append(http, Exchange(Request("test", provider, test_params),
                                     Thrown(failure)))
    /\ result' = RequestError(failure)
    /\ pc' = "done"
    /\ UNCHANGED <<provider, op, offset, items, parsed_items, parser_calls>>

test_response(response) ==
    /\ op = "test"
    /\ pc = "request"
    /\ http' = Append(http, Exchange(Request("test", provider, test_params), response))
    /\ result' = TestOutcome(response)
    /\ pc' = "done"
    /\ UNCHANGED <<provider, op, offset, items, parsed_items, parser_calls>>

(* ----------------------------- specification --------------------------- *)

Next ==
    \/ call_fetch_data
    \/ call_update
    \/ call_test
    \/ \E failure \in TransportFailures : fetch_raises(failure)
    \/ \E response \in Responses \cup GrowingResponses(offset, Len(http)) :
           fetch_ok(response)
    \/ \E response \in Responses : fetch_not_ok(response)
    \/ \E outcome \in ParserOutcomes : update_parse(outcome)
    \/ update_return
    \/ \E failure \in TransportFailures : test_raises(failure)
    \/ \E response \in Responses : test_response(response)

Spec == Init /\ [][Next]_vars

\* The calls are synchronous: an operation that has started runs on until it
\* returns or raises (every request comes back within the 30 s timeout or
\* fails).
FairSpec == Spec /\ WF_vars(Next)

(* ------------------------- properties: the walk ------------------------ *)

FetchOps == {"fetch_data", "update"}

IsOkReply(reply) == reply.exc = "" /\ ok(reply)

\* The body is one of the feed's well-formed pages reporting total T.
ReportsTotal(text, T) == text \in {PlainBody(T), TightBody(T), LateBody(T)}

\* Every request so far was answered successfully by a page reporting T.
EveryPageReports(T) ==
    \A i \in 1..Len(http) :
        IsOkReply(http[i].reply) /\ ReportsTotal(http[i].reply.text, T)

OffsetOf(k) == http[k].request.params.offset

\* fetch_data, called on its own, has returned its items.
FetchReturned == op = "fetch_data" /\ pc = "done" /\ result.kind = "returned"

\* The smallest k with k * offset_jump >= T.
SmallestK(T) ==
    CHOOSE k \in 0..(T + 1) :
        /\ k * offset_jump >= T
        /\ \A j \in 0..(k - 1) : j * offset_jump < T

\* C1: with page size 10 and a total T > 0 reported identically on every
\* successful page, a walk whose requests all succeed issues exactly the
\* smallest k with k * 10 >= T requests.
C1_RequestCount ==
    \A T \in 1..MaxTotal :
        (FetchReturned /\ EveryPageReports(T)) => Len(http) = SmallestK(T)

\* The smallest k with (k - 1) * offset_jump >= T: the first request whose
\* offset reaches T is the k-th.
WalkLength(T) ==
    CHOOSE k \in 1..(T + 2) :
        /\ (k - 1) * offset_jump >= T
        /\ \A j \in 1..(k - 1) : (j - 1) * offset_jump < T

\* C1 (amended): with page size 10 and a total T > 0 reported identically on
\* every successful page, a walk whose requests all succeed issues exactly the
\* smallest k with (k - 1) * 10 >= T requests, one more than the pages that
\* hold the T results.
C1_RequestCountAmended ==
    \A T \in 1..MaxTotal :
        (op \in FetchOps /\ ~InFetch /\ EveryPageReports(T)) =>
            Len(http) = WalkLength(T)

C1_Witness ==
    /\ FetchReturned
    /\ EveryPageReports(11)
    /\ Len(http) = 3
    /\ Len(result.value) = 3

\* C2: every request answered successfully with total = 15: fetch returns
\* exactly 2 page bodies, the walk ends after the request at offset 10, and no
\* request at offset 20 is issued.
C2_TwoPagesForFifteen ==
    (op = "fetch_data" /\ EveryPageReports(15)) =>
        /\ \A k \in 1..Len(http) : OffsetOf(k) # 20
        /\ (pc = "done" =>
              /\ result.kind = "returned"
              /\ Len(result.value) = 2
              /\ Len(http) = 2
              /\ OffsetOf(2) = 10)

\* C2 (amended): every request answered successfully with total = 15: the
\* walk requests the offsets 0, 10 and 20 and ends after the request at offset
\* 20; fetch returns exactly the 3 page bodies received, in request order.
C2_ThreePagesForFifteen ==
    (op \in FetchOps /\ EveryPageReports(15)) =>
        /\ \A k \in 1..Len(http) : OffsetOf(k) \in {0, 10, 20}
        /\ (~InFetch =>
              /\ Len(http) = 3
              /\ OffsetOf(3) = 20
              /\ items = [k \in 1..3 |-> http[k].reply.text])
        /\ (op = "fetch_data" /\ pc = "done" => result = Returned(items))

C2_Witness ==
    /\ FetchReturned
    /\ EveryPageReports(15)
    /\ Len(result.value) = 3
    /\ OffsetOf(Len(http)) = 20

\* C3: when the first successful response reports total = 0, the walk is over
\* after exactly one request, the one at offset 0; no body is appended and
\* fetch returns the empty sequence.
C3_ZeroTotal ==
    (/\ op \in FetchOps
     /\ Len(http) >= 1
     /\ IsOkReply(http[1].reply)
     /\ ReportsTotal(http[1].reply.text, 0)) =>
        /\ Len(http) = 1
        /\ OffsetOf(1) = 0
        /\ ~InFetch
        /\ items = <<>>
        /\ result.kind # "raised"
        /\ result.value = <<>>
        /\ (op = "fetch_data" => result = Returned(<<>>))

C3_Witness ==
    /\ op = "fetch_data"
    /\ pc = "done"
    /\ Len(http) = 1
    /\ IsOkReply(http[1].reply)
    /\ ReportsTotal(http[1].reply.text, 0)
    /\ result = Returned(<<>>)

\* The shape of a walk on a feed that reports the same total T on every page:
\* the k-th request is at offset (k - 1) * offset_jump, every request before
\* the last was at an offset < T, and the walk is over exactly when the last
\* request was at an offset >= T.
C4_WalkShape ==
    \A T \in 0..MaxTotal :
        (op \in FetchOps /\ EveryPageReports(T)) =>
            /\ \A k \in 1..Len(http) : OffsetOf(k) = (k - 1) * offset_jump
            /\ \A k \in 1..(Len(http) - 1) : OffsetOf(k) < T
            /\ (InFetch =>
                  /\ offset = Len(http) * offset_jump
                  /\ (Len(http) > 0 => OffsetOf(Len(http)) < T))
            /\ (~InFetch => Len(http) > 0 /\ OffsetOf(Len(http)) >= T)

\* C4: for limit = offset_jump > 0 and a fixed non-negative total the walk
\* always terminates: the offset starts at 0, grows by exactly offset_jump
\* after each successful page that does not end the walk, and the walk returns
\* at the first request whose offset >= total.
C4_WalkTerminates == []C4_WalkShape /\ (InFetch ~> ~InFetch)

C4_Witness ==
    /\ FetchReturned
    /\ EveryPageReports(MaxTotal)
    /\ Len(http) >= 3
    /\ OffsetOf(Len(http)) >= MaxTotal

(* ------------------------ properties: the errors ----------------------- *)

LastExchange == http[Len(http)]

\* A successful page without a "total" field, or with one that no digit follows.
LacksTotal(text) == text \in {NoTotalBody, NullTotalBody, QuotedTotalBody}

\* C5: a successful response whose body has no "total" field (or a "total"
\* field with no digits after it) makes fetch fail with GeneralError carrying
\* the raw body; nothing else escapes from the extraction of the total.
C5_MissingTotalIsGeneralError ==
    (/\ op \in FetchOps
     /\ Len(http) >= 1
     /\ IsOkReply(LastExchange.reply)
     /\ LacksTotal(LastExchange.reply.text)) =>
        result = Raised("apiGeneralError", LastExchange.reply.text)

IsErrorReply(reply) == reply.exc = "" /\ ~ok(reply)

\* C6: on a non-success response whose body contains the marker text anywhere,
\* fetch fails with AuthError whatever the status code is.
C6_MarkerAnywhereIsAuthError ==
    (/\ op \in FetchOps
     /\ Len(http) >= 1
     /\ IsErrorReply(LastExchange.reply)
     /\ Contains(LastExchange.reply.text, NoApiKeyPattern)) =>
        /\ pc = "done"
        /\ result.kind = "raised"
        /\ result.error = "apiAuthError"

\* C7: if the k-th request of a walk fails at transport level, fetch ends with
\* ConnectionError, exposes none of the k - 1 pages accumulated so far and
\* issues no further request.
C7_TransportFailureEndsWalk ==
    \A k \in 1..Len(http) :
        (op \in FetchOps /\ http[k].reply.failure \in TransportFailures) =>
            /\ k = Len(http)
            /\ pc = "done"
            /\ result.kind = "raised"
            /\ result.error = "apiConnectionError"
            /\ result.value = <<>>

\* C8: every kind of transport-level failure (DNS failure, connection refusal,
\* timeout, including a timeout while waiting for the response) ends fetch and
\* probe with ConnectionError.
C8_EveryTransportFailureClassified ==
    \A failure \in TransportFailures :
        (/\ op \in FetchOps \cup {"test"}
         /\ Len(http) >= 1
         /\ LastExchange.reply.failure = failure) =>
            result.kind = "raised" /\ result.error = "apiConnectionError"

\* C9: on a non-success response whose body does not carry the marker, status
\* 404 yields NotFoundError and every other non-success status GeneralError;
\* the walk stops at that request and returns no pages.
C9_StatusClassification ==
    \A k \in 1..Len(http) :
        (/\ op \in FetchOps
         /\ IsErrorReply(http[k].reply)
         /\ ~Contains(http[k].reply.text, NoApiKeyPattern)) =>
            /\ k = Len(http)
            /\ pc = "done"
            /\ result.kind = "raised"
            /\ result.error = IF http[k].reply.status_code = 404
                              THEN "apiNotFoundError" ELSE "apiGeneralError"
            /\ result.data = http[k].reply.reason
            /\ result.value = <<>>

C9_Witness ==
    /\ op = "fetch_data"
    /\ Len(http) = 2
    /\ Len(items) = 1
    /\ IsErrorReply(LastExchange.reply)
    /\ LastExchange.reply.status_code = 404
    /\ LastExchange.reply.text = OtherErrorBody
    /\ result = Raised("apiNotFoundError", Reason(404))

(* ------------------------- properties: the sync ------------------------ *)

\* C10: if the parser fails on the j-th of n raw pages, sync ends with
\* ParseError carrying that page's raw data, returns none of the j - 1 items
\* already parsed, and does not invoke the parser on pages j + 1 .. n.
C10_ParseFailureAborts ==
    \A j \in 1..Len(parser_calls) :
        parser_calls[j].outcome # "ok" =>
            /\ op = "update"
            /\ pc = "done"
            /\ j = Len(parser_calls)
            /\ j <= Len(items)
            /\ parser_calls[j].item = items[j]
            /\ result = Raised("parseMessageError", items[j])
            /\ result.value = <<>>
            /\ Len(parsed_items) = j - 1

C10_Witness ==
    /\ op = "update"
    /\ pc = "done"
    /\ Len(items) = 3
    /\ Len(parser_calls) = 2
    /\ parser_calls[1].outcome = "ok"
    /\ parser_calls[2].outcome = "parse_raises"
    /\ result = Raised("parseMessageError", items[2])

\* The four kinds of failure of the fetch walk.
FetchErrorKinds ==
    {"apiConnectionError", "apiAuthError", "apiNotFoundError", "apiGeneralError"}

\* The kind of failure the walk ends with on a reply that is a classified
\* transport failure or a non-success response.
ExpectedFetchError(reply) ==
    IF reply.failure \in {"dns", "refused", "connect_timeout"}
    THEN "apiConnectionError"
    ELSE IF StartsAt(reply.text, 1, NoApiKeyPattern) THEN "apiAuthError"
    ELSE IF reply.status_code = 404 THEN "apiNotFoundError"
    ELSE "apiGeneralError"

\* C11: in sync, a failure of the fetch walk (ConnectionError, AuthError,
\* NotFoundError or GeneralError) is the outcome of sync with its kind
\* unchanged: it is never re-wrapped as ParseError, no normalized item is
\* returned, and the parser is never invoked.
C11_FetchFailurePropagates ==
    /\ (/\ op = "update"
        /\ pc = "done"
        /\ Len(http) >= 1
        /\ \/ LastExchange.reply.failure \in {"dns", "refused", "connect_timeout"}
           \/ IsErrorReply(LastExchange.reply)) =>
           /\ result.kind = "raised"
           /\ result.error = ExpectedFetchError(LastExchange.reply)
           /\ result.value = <<>>
           /\ parsed_items = <<>>
           /\ parser_calls = <<>>
    /\ (op = "update" /\ result.error \in FetchErrorKinds) => parser_calls = <<>>
    /\ (op = "update" /\ result.error = "parseMessageError") => parser_calls # <<>>

C11_Witness ==
    /\ op = "update"
    /\ pc = "done"
    /\ Len(http) = 2
    /\ Len(items) = 1
    /\ LastExchange.reply = Response(404, OtherErrorBody)
    /\ result.error = "apiNotFoundError"
    /\ parser_calls = <<>>

\* C12: when fetch and every parse succeed, sync returns exactly one normalized
\* item per raw page body returned by fetch, in the order in which the pages
\* were retrieved: the i-th output is the parse of the i-th page.
C12_OneItemPerPageInOrder ==
    (op = "update" /\ pc = "done" /\ result.kind = "returned") =>
        /\ Len(result.value) = Len(items)
        /\ \A i \in 1..Len(items) : result.value[i].article_of = items[i]
        /\ \A i \in 1..Len(parser_calls) :
               parser_calls[i].outcome = "ok" /\ parser_calls[i].item = items[i]

C12_Witness ==
    /\ op = "update"
    /\ pc = "done"
    /\ result.kind = "returned"
    /\ Len(result.value) = 3
    /\ items[1] # items[2]
    /\ items[2] # items[3]
    /\ result.value[3].article_of = http[3].reply.text

(* ------------------------ properties: the probe ------------------------ *)

\* C13: the probe issues exactly one request in every execution, whatever the
\* outcome (no retry, no pagination), and ends in success without raising
\* whenever that request gets a success response.
C13_ProbeOneRequest ==
    op = "test" =>
        /\ Len(http) <= 1
        /\ (pc = "request" => Len(http) = 0)
        /\ (pc = "done" =>
              /\ Len(http) = 1
              /\ http[1].request.caller = "test"
              /\ http[1].request.params = [limit |-> 1, fields |-> "id"]
              /\ (http[1].reply.exc = "" /\ http[1].reply.status_code \in SuccessStatus
                    => result = Returned(<<>>)))

C13_Witness ==
    /\ op = "test"
    /\ pc = "done"
    /\ Len(http) = 1
    /\ http[1].reply = Response(200, NoTotalBody)
    /\ result.kind = "returned"

\* C14: when the probe's request gets a non-success response, status 404
\* yields NotFoundError and any other non-success status GeneralError.
C14_ProbeStatusClassification ==
    (op = "test" /\ pc = "done" /\ IsErrorReply(http[1].reply)) =>
        /\ result.kind = "raised"
        /\ result.error = IF http[1].reply.status_code = 404
                          THEN "apiNotFoundError" ELSE "apiGeneralError"
        /\ result.data = http[1].reply.reason

C14_Witness ==
    /\ op = "test"
    /\ pc = "done"
    /\ http[1].reply = Response(404, OtherErrorBody)
    /\ result = Raised("apiNotFoundError", Reason(404))

(* ------------------------ properties: the provider --------------------- *)

\* C15: no execution of sync, fetch or probe, whether it succeeds or fails,
\* changes the provider record: url, api_key and last_updated are after every
\* step what they were before it.
C15_ProviderUnchanged == [][provider' = provider]_vars

C15_Witness ==
    /\ op = "update"
    /\ pc = "done"
    /\ result.kind = "returned"
    /\ Len(http) >= 2
    /\ ~provider.has_last_updated
    /\ http[1].request.params.start = strftime(EpochZero)

(* ----------------------- properties: the walk, II ---------------------- *)

\* The largest total a page of the modelled feed can report.
MaxReported == MaxTotal + MaxWalk * offset_jump + 1

\* The totals the pages of the modelled feed report.
ReportedTotals == TotalValues \cup {k * offset_jump + 1 : k \in 0..MaxWalk}

\* The well-formed pages of the modelled feed, each with the total it reports.
WellFormedPages ==
    UNION { { [text |-> PlainBody(T), total |-> T],
              [text |-> TightBody(T), total |-> T],
              [text |-> LateBody(T), total |-> T] } : T \in ReportedTotals }

\* The body is a well-formed page of the feed.
WellFormed(text) == \E page \in WellFormedPages : page.text = text

\* The total a well-formed page reports.
TotalOf(text) == (CHOOSE page \in WellFormedPages : page.text = text).total

\* The exchange is a successful response of a page that reports a total > 0.
PositivePage(x) ==
    IsOkReply(x.reply) /\ WellFormed(x.reply.text) /\ TotalOf(x.reply.text) > 0

TextsOf(xs) == [i \in 1..Len(xs) |-> xs[i].reply.text]

\* C16: the sequence returned by fetch is, in request order, the body of every
\* successful response of the walk whose total is > 0, the response to the
\* final request included; so for a fixed total T > 0 the result has as many
\* elements as requests were issued, and its last element is a page requested
\* at an offset >= T.
C16_ResultIsEveryPositivePage ==
    /\ op \in FetchOps => items = TextsOf(SelectSeq(http, PositivePage))
    /\ FetchReturned =>
          /\ result.value = TextsOf(SelectSeq(http, PositivePage))
          /\ \A T \in 1..MaxTotal :
                EveryPageReports(T) =>
                    /\ Len(result.value) = Len(http)
                    /\ result.value[Len(http)] = LastExchange.reply.text
                    /\ OffsetOf(Len(http)) >= T

C16_Witness ==
    /\ FetchReturned
    /\ EveryPageReports(10)
    /\ Len(result.value) = 2
    /\ OffsetOf(2) = 10
    /\ result.value[2] = http[2].reply.text

Text_1970 ==
    << "1", "9", "7", "0", "-", "0", "1", "-", "0", "1", "T",
       "0", "0", ":", "0", "0", ":", "0", "0" >>

Text_2018 ==
    << "2", "0", "1", "8", "-", "0", "3", "-", "0", "5", "T",
       "0", "9", ":", "0", "7", ":", "0", "2" >>

\* C17: within one walk the k-th request carries offset (k - 1) * 10, limit 10
\* and the same start value as the first request (the provider's last_updated,
\* or epoch-zero when it is absent); no offset is requested twice and the
\* offsets are requested in strictly increasing order.
C17_RequestParameters ==
    op \in FetchOps =>
        /\ \A k \in 1..Len(http) :
              /\ http[k].request.caller = "fetch_data"
              /\ http[k].request.params.offset = (k - 1) * 10
              /\ http[k].request.params.limit = 10
              /\ http[k].request.params.start = http[1].request.params.start
              /\ http[k].request.params.start =
                    IF provider.has_last_updated THEN Text_2018 ELSE Text_1970
        /\ \A j, k \in 1..Len(http) : j < k => OffsetOf(j) < OffsetOf(k)

C17_Witness ==
    /\ op = "fetch_data"
    /\ Len(http) = 4
    /\ OffsetOf(4) = 30
    /\ provider.has_last_updated
    /\ http[4].request.params.start = Text_2018

\* No request is issued once the parser has been invoked, and the parser gets
\* the fetched pages one by one, each at most once.
C18_ParserAfterRequests ==
    /\ (parser_calls # <<>> => op = "update" /\ pc \in {"parse", "done"})
    /\ Len(parser_calls) <= Len(items)
    /\ \A i \in 1..Len(parser_calls) : parser_calls[i].item = items[i]

\* C18: in every execution of sync, all HTTP requests of the walk happen before
\* the first invocation of the parser: parsing never interleaves with fetching,
\* and the parser is invoked at most once per fetched page.
C18_FetchBeforeParse ==
    /\ []C18_ParserAfterRequests
    /\ [][parser_calls # <<>> => http' = http /\ items' = items]_vars

C18_Witness ==
    /\ op = "update"
    /\ pc = "done"
    /\ Len(http) = 3
    /\ Len(items) = 3
    /\ Len(parser_calls) = 3
    /\ result.kind = "returned"

\* C19: the probe never ends with AuthError: a non-success response whose body
\* is the marker is classified by status code only (404 gives NotFoundError,
\* anything else GeneralError), unlike fetch, where the same response gives
\* AuthError.
C19_ProbeNeverAuthError ==
    /\ op = "test" => result.error # "apiAuthError"
    /\ (op = "test" /\ pc = "done" /\ IsErrorReply(http[1].reply)
          /\ http[1].reply.text = MarkerBody) =>
           result = Raised(IF http[1].reply.status_code = 404
                           THEN "apiNotFoundError" ELSE "apiGeneralError",
                           http[1].reply.reason)
    /\ (op \in FetchOps /\ Len(http) >= 1 /\ IsErrorReply(LastExchange.reply)
          /\ LastExchange.reply.text = MarkerBody) =>
           result = Raised("apiAuthError", MarkerBody)

C19_Witness ==
    /\ op = "test"
    /\ pc = "done"
    /\ http[1].reply = Response(401, MarkerBody)
    /\ result = Raised("apiGeneralError", Reason(401))

\* Every request so far was answered successfully by a well-formed page.
EveryPageWellFormed ==
    \A k \in 1..Len(http) : IsOkReply(http[k].reply) /\ WellFormed(http[k].reply.text)

ReportedAt(k) == TotalOf(http[k].reply.text)

\* ceil(n / offset_jump)
CeilPages(n) == (n + offset_jump - 1) \div offset_jump

\* C20: when the total reported may differ from page to page, the exit decision
\* at each page uses only that page's total and the current offset; if every
\* reported total is at most B, a walk whose requests all succeed ends after at
\* most ceil(B/10) + 1 requests; and as long as every reported total exceeds
\* the offset requested, the walk does not return.
\* (The bound ceil(B/10) + 1 grows with B, so it is stated for the smallest B
\* there is: the largest total reported so far.)
C20_VaryingTotals ==
    (op \in FetchOps /\ EveryPageWellFormed) =>
        LET reported == {ReportedAt(k) : k \in 1..Len(http)}
        IN  /\ \A k \in 1..(Len(http) - 1) : OffsetOf(k) < ReportedAt(k)
            /\ (Len(http) >= 1 =>
                  (InFetch <=> OffsetOf(Len(http)) < ReportedAt(Len(http))))
            /\ \A B \in reported :
                  (\A T \in reported : T <= B) => Len(http) <= CeilPages(B) + 1
            /\ ((\A k \in 1..Len(http) : ReportedAt(k) > OffsetOf(k)) => InFetch)

C20_Witness ==
    /\ op = "fetch_data"
    /\ EveryPageWellFormed
    /\ Len(http) = MaxWalk
    /\ \A k \in 1..Len(http) : ReportedAt(k) > OffsetOf(k)
    /\ ReportedAt(1) > ReportedAt(2)
    /\ InFetch

====
